---- MODULE Spec2Model ----
(***************************************************************************)
(* The extraction / normalization / resume pipeline of the LinkedIn        *)
(* profile scraper: LinkedInScraper.scrape_profiles (main.py), the fetch   *)
(* executor LinkedInProfileProcessor (profile_processor.py) and the sink   *)
(* CSVExporter (csv_exporter.py).                                          *)
(*                                                                         *)
(* ProfileSource (the MCP tool call), Discovery (the search scraper) and   *)
(* the file system are the environment: each attempt's outcome and each    *)
(* write's outcome is chosen nondeterministically.  A failed               *)
(* export_to_csv leaves the file as it was; a failed append loop leaves    *)
(* the rows appended before the failing append_to_csv call.                *)
(*                                                                         *)
(* ProfileDataCalculator (data_calculator.py) is modelled twice: inside    *)
(* the pipeline by what the pipeline keeps of it (the linkedin_url and     *)
(* whether it raised), and on its own, in SpecCalc, by the record it       *)
(* computes from a payload.  dateutil and fuzzywuzzy are libraries: the    *)
(* date parser is modelled on the words of a text, and the scores of       *)
(* token_sort_ratio are inputs.                                            *)
(***************************************************************************)
EXTENDS Integers, Sequences, FiniteSets, TLC

\* ---------------------------------------------------------------- bounds
MaxIds == 2
MaxBatch == 2
MaxRuns == 2
MaxWriteFaults == 1
MaxAttempt == 4
MaxEntries == 2
MaxTargets == 2

\* ------------------------------------------------------ program constants
max_retries == 3
BackoffBase == 30
BackoffCap == 120
min_delay == 3
max_delay == 5

Identifiers == 1..MaxIds
\* The exception an attempt raises is an object of its own: it is named by
\* the attempt that raised it.
ErrorOf(a) == <<"error", a>>
NoError == <<"none", 0>>
\* What result.content[0].text can hold, by what json.loads makes of it.
RawShapes == {"mapping", "scalar"}

VARIABLES
    sink,               \* the CSV file: [exists, header, rows]
    discovery,          \* what scrape_search_results returns (same every run)
    run,                \* number of runs started
    allResume,          \* every run so far was started with resume=True
    pc,                 \* position of the orchestrator
    resume,             \* scrape_profiles argument
    batch_size,         \* scrape_profiles argument
    already_processed,  \* scrape_profiles local
    profile_urls,       \* scrape_profiles local, after filtering
    i,                  \* fetch_profiles_batch loop index (1-based)
    attempt,            \* fetch_profile loop variable
    results,            \* fetch_profiles_batch local
    processed_profiles, \* scrape_profiles local (the batch buffer)
    fetched,            \* history: identifiers call_tool was invoked for, this run
    log,                \* history: attempts of the identifier fetched last
    lastError,          \* history: what the latest attempt raised, if anything
    flushes,            \* history: writes attempted by this run
    written,            \* history: linkedin_urls this run wrote to the sink
    startRows,          \* history: rows of the sink when the run started
    readOk,             \* history: read_csv succeeded at run start
    profile_data,       \* fetch_profile local: the content awaiting its return
    delay,              \* _rate_limit_delay local: the sleep being served
    progress,           \* history: the on_progress calls of this run
    calcIn,             \* the calculator on its own: the arguments drawn
    calcOut,            \* the calculator on its own: what the function returned
    calcDone            \* the calculator on its own: the function was applied

vars == <<sink, discovery, run, allResume, pc, resume, batch_size,
          already_processed, profile_urls, i, attempt, results,
          processed_profiles, fetched, log, lastError, flushes, written,
          startRows, readOk, profile_data, delay, progress,
          calcIn, calcOut, calcDone>>

\* ---------------------------------------------------------------- helpers
Min(a, b) == IF a < b THEN a ELSE b

Range(s) == {s[k] : k \in DOMAIN s}

UrlsOf(rows) == {rows[k].linkedin_url : k \in DOMAIN rows}

RECURSIVE Pow2(_)
Pow2(n) == IF n = 0 THEN 1 ELSE 2 * Pow2(n - 1)

\* Discovery returns distinct identifiers.  Identifiers are opaque, so a
\* sequence of n distinct ones is <<1, ..., n>> up to renaming.
DiscoveryOutputs == {[k \in 1..n |-> k] : n \in 0..MaxIds}

\* Write failures of the current run, from its history.
WriteFaults(fl) == Cardinality({k \in DOMAIN fl : ~fl[k].ok})

NoFile == [exists |-> FALSE, header |-> FALSE, rows |-> <<>>]

\* ------------------------------------------------------------ csv_exporter
ExportAppending(snk, profiles) ==
    [exists |-> TRUE, header |-> TRUE, rows |-> snk.rows \o profiles]

\* export_to_csv: DataFrame.to_csv rewrites the file, header first.
ExportToCsv(snk, profiles) ==
    [exists |-> TRUE, header |-> TRUE, rows |-> profiles]

\* append_to_csv: open in append mode, header only when the file is new.
AppendToCsv(snk, profile) ==
    [exists |-> TRUE,
     header |-> IF snk.exists THEN snk.header ELSE TRUE,
     rows   |-> Append(snk.rows, profile)]

ProcessedUrlsDespiteFailure(snk, ok) ==
    IF ~snk.exists THEN {} ELSE UrlsOf(snk.rows)

\* get_processed_urls: empty when the file is absent or read_csv raises.
GetProcessedUrls(snk, ok) ==
    IF ~snk.exists THEN {}
    ELSE IF ~ok THEN {}
    ELSE UrlsOf(snk.rows)

\* ------------------------------------------------------- profile_processor
BackoffFromFirst(a) == Min(BackoffBase * Pow2(a), BackoffCap)

\* _exponential_backoff: the seconds slept before attempt number `a`.
ExponentialBackoff(a) ==
    IF a > 0 THEN Min(BackoffBase * Pow2(a), BackoffCap) ELSE 0

LastAttemptEarly(a) == a = max_retries - 2

\* fetch_profile line 147: the attempt after which a failure is returned.
LastAttempt(a) == a = max_retries - 1

RateLimitDelaysFromZero == 0..max_delay

\* _rate_limit_delay: random.uniform(min_delay, max_delay), in whole seconds.
RateLimitDelays == min_delay..max_delay

NoneAsFailure ==
    [kind |-> "dict", url |-> 0, raw_data |-> "None", success |-> FALSE,
     error |-> NoError]

\* fetch_profile line 141: `return None` on an empty response.
NoneResult == [kind |-> "None"]

SuccessResult(url, raw) ==
    [kind |-> "dict", url |-> url, raw_data |-> raw, success |-> TRUE]

FailureResult(url, err) ==
    [kind |-> "dict", url |-> url, raw_data |-> "None", success |-> FALSE,
     error |-> err]

\* The outcomes of one call_tool: content, no content, or an exception.
Outcomes ==
    {[kind |-> "ok", raw |-> r] : r \in RawShapes}
    \cup {[kind |-> "empty", raw |-> "none"], [kind |-> "error", raw |-> "none"]}

\* ---------------------------------------------------------- data_calculator
NeverRaises(raw) == FALSE

\* extract_profile_fields raises when json.loads gives a non-container
\* (a number, true, null): `key in profile` is a TypeError.
NormalizeRaises(raw) == raw = "scalar"

\* extract_profile_fields: linkedin_url is profile_data["url"].
ExtractProfileFields(result) == [linkedin_url |-> result.url]

\* -------------------------------------------------------------------- main
FilterNothing(urls, processed) == urls

\* scrape_profiles line 98.
FilterNew(urls, processed) ==
    SelectSeq(urls, LAMBDA u : u \notin processed)

IsAnyDict(result) == result.kind = "dict"

\* progress_callback line 116: the test that selects the success branch.
IsSuccess(result) == result.kind = "dict" /\ result.success

\* The outcomes of a write: it succeeds, or fails after `at` steps.
WriteOutcomes ==
    {[ok |-> TRUE, at |-> 0]} \cup {[ok |-> FALSE, at |-> k] : k \in 0..1}

\* The outcome handed to a step of the callback that attempts no write.
NoWrite == [ok |-> TRUE, at |-> 0]

RECURSIVE AppendAll(_, _, _)
AppendAll(snk, profiles, n) ==
    IF n = 0 THEN snk
    ELSE AppendToCsv(AppendAll(snk, profiles, n - 1), profiles[n])

\* _save_batch: append every buffered profile when resuming onto an existing
\* file, else rewrite the file; any exception is logged and swallowed.
SaveBatch(snk, profiles, res, w) ==
    IF res /\ snk.exists
    THEN LET n == IF w.ok THEN Len(profiles) ELSE Min(w.at, Len(profiles) - 1)
         IN  [sink |-> AppendAll(snk, profiles, n), ok |-> w.ok,
              mode |-> "append", n |-> n]
    ELSE IF w.ok
         THEN [sink |-> ExportToCsv(snk, profiles), ok |-> TRUE,
               mode |-> "create", n |-> Len(profiles)]
         ELSE [sink |-> snk, ok |-> FALSE, mode |-> "create", n |-> 0]

\* ======================================================================
\* data_calculator in detail
\* ======================================================================
\* Text is a sequence of lower-case words (case and white space are not
\* modelled); a value is a record [t, v] tagged with its Python type.  The
\* pipeline above keeps only the linkedin_url of a record and the fact that
\* normalization raised; the operators below compute the whole record.
NoDate == <<0, 0, 0>>

Str(words) == [t |-> "str", v |-> words]

\* A non-zero number; v is its str().
Num(words) == [t |-> "num", v |-> words]

Null == [t |-> "null", v |-> <<"none">>]

List(s) == [t |-> "list", v |-> s]

Map(f) == [t |-> "map", v |-> f]

\* raw_data that is text: text json.loads decodes to val, text it rejects.
Json(val) == [t |-> "json", v |-> val]

Text(words) == [t |-> "text", v |-> words]

EmptyMap == Map(<<>>)

\* Python truth value.
Truthy(val) ==
    CASE val.t \in {"str", "text", "list"} -> val.v # <<>>
      [] val.t = "map" -> DOMAIN val.v # {}
      [] val.t = "null" -> FALSE
      [] OTHER -> TRUE

\* str(x).strip()
ToStr(val) ==
    CASE val.t \in {"str", "text", "num", "null"} -> val.v
      [] val.t = "list" -> <<"[...]">>
      [] OTHER -> <<"{...}">>

\* b occurs in a as a run of consecutive words (`b in a` on text).
Contains(a, b) ==
    \E k \in 0..(Len(a) - Len(b)) : SubSeq(a, k + 1, k + Len(b)) = b

\* `key in profile` for the containers json.loads can return.
KeyIn(key, val) ==
    CASE val.t = "map" -> key \in DOMAIN val.v
      [] val.t = "list" -> \E k \in DOMAIN val.v :
                               val.v[k].t = "str" /\ val.v[k].v = <<key>>
      [] val.t = "str" -> Contains(val.v, <<key>>)
      [] OTHER -> FALSE

\* _parse_profile_data
ParseProfileData(raw) ==
    IF ~Truthy(raw) THEN EmptyMap
    ELSE CASE raw.t = "json" -> raw.v
           [] raw.t = "text" -> Map("raw_text" :> Str(raw.v))
           [] raw.t = "map" -> raw
           [] OTHER -> Map("raw_text" :> Str(ToStr(raw)))

\* ------------------------------------------------------------------ dates
\* A datetime is <<year, month, t>>: t orders instants within the month.
\* Parsed text carries no time of day (t = 0); a reading of the clock has
\* t > 0.
MonthValue == ("jan" :> 1) @@ ("apr" :> 4) @@ ("jun" :> 6)

YearValue == ("2019" :> 2019) @@ ("2020" :> 2020)

PresentWords == {"present", "current", "now"}

\* dateutil's parser.parse(text, fuzzy=True): words that are not date tokens
\* are skipped, fields the text does not give are taken from today's date at
\* midnight; text without a date token is rejected (NoDate here).
DateutilParse(words, now) ==
    LET ys == {k \in DOMAIN words : words[k] \in DOMAIN YearValue}
        ms == {k \in DOMAIN words : words[k] \in DOMAIN MonthValue}
        y  == IF ys = {} THEN now[1]
              ELSE YearValue[words[CHOOSE k \in ys : \A j \in ys : k <= j]]
        m  == IF ms = {} THEN now[2]
              ELSE MonthValue[words[CHOOSE k \in ms : \A j \in ms : k <= j]]
    IN  IF ys = {} /\ ms = {} THEN NoDate ELSE <<y, m, 0>>

\* _parse_date lines 84-96: the manual rules, tried when dateutil raised.
ManualParse(words, now) ==
    IF Len(words) = 1 /\ words[1] \in DOMAIN YearValue
    THEN <<YearValue[words[1]], 1, 0>>
    ELSE IF \E k \in 1..(Len(words) - 1) : words[k + 1] \in DOMAIN YearValue
         THEN LET k == CHOOSE j \in 1..(Len(words) - 1) :
                           /\ words[j + 1] \in DOMAIN YearValue
                           /\ \A h \in 1..(j - 1) : words[h + 1] \notin DOMAIN YearValue
              IN  DateutilParse(<<words[k], words[k + 1]>>, now)
         ELSE NoDate

\* _parse_date: `now` is the clock reading of this call.
ParseDate(words, now) ==
    IF words = <<>> THEN NoDate
    ELSE IF Len(words) = 1 /\ words[1] \in PresentWords THEN now
    ELSE IF DateutilParse(words, now) # NoDate THEN DateutilParse(words, now)
    ELSE ManualParse(words, now)

RoundDown(n, d) == n \div d

\* Python's round(n / d) for d = 6: to the nearest integer, a tie going to
\* the even one.
RoundHalfEven(n, d) ==
    LET q == n \div d
        r == n % d
    IN  IF 2 * r < d THEN q
        ELSE IF 2 * r > d THEN q + 1
        ELSE IF q % 2 = 0 THEN q ELSE q + 1

\* _calculate_duration, in half-years (the code returns half of this number
\* as a float): round(months / 12.0 * 2) is round(months / 6).
CalculateDuration(start, end, now) ==
    LET s == ParseDate(start, now)
        e == IF ParseDate(end, now) = NoDate THEN now ELSE ParseDate(end, now)
        months == (e[1] - s[1]) * 12 + (e[2] - s[2])
    IN  IF s = NoDate THEN 0 ELSE RoundHalfEven(months, 6)

DateNotBefore(a, b) ==
    \/ a[1] > b[1]
    \/ a[1] = b[1] /\ a[2] > b[2]
    \/ a[1] = b[1] /\ a[2] = b[2] /\ a[3] >= b[3]

\* datetime's `a > b`
DateAfter(a, b) ==
    \/ a[1] > b[1]
    \/ a[1] = b[1] /\ a[2] > b[2]
    \/ a[1] = b[1] /\ a[2] = b[2] /\ a[3] > b[3]

\* ------------------------------------------------------------ fuzzy match
MatchThreshold == 85

AcceptsAbove(score) == score > MatchThreshold

\* _fuzzy_match_school line 155
Accepts(score) == score >= MatchThreshold

ExtractOneLast(choices, scores) ==
    IF choices = <<>> THEN 0
    ELSE CHOOSE k \in DOMAIN choices :
             /\ \A j \in DOMAIN choices : scores[j] <= scores[k]
             /\ \A j \in (k + 1)..Len(choices) : scores[j] < scores[k]

\* process.extractOne: the first choice holding the highest score, 0 when
\* there is no choice.  scores[k] is token_sort_ratio(name, choices[k]).
ExtractOne(choices, scores) ==
    IF choices = <<>> THEN 0
    ELSE CHOOSE k \in DOMAIN choices :
             /\ \A j \in DOMAIN choices : scores[j] <= scores[k]
             /\ \A j \in 1..(k - 1) : scores[j] < scores[k]

\* _fuzzy_match_school: the matched target school, <<>> for None.
FuzzyMatchSchool(school_name, target_schools, scores) ==
    LET best == ExtractOne(target_schools, scores)
    IN  IF school_name = <<>> THEN <<>>
        ELSE IF best # 0 /\ Accepts(scores[best]) THEN target_schools[best]
        ELSE <<>>

IsListedExactly(company_name, listed) ==
    /\ company_name # <<>>
    /\ \E k \in DOMAIN listed : company_name = listed[k]

\* _is_target_company / _is_food_retailer
IsListed(company_name, listed) ==
    /\ company_name # <<>>
    /\ \E k \in DOMAIN listed :
           Contains(company_name, listed[k]) \/ Contains(listed[k], company_name)

\* ------------------------------------------------- extract_profile_fields
NameKeys == <<"name", "full_name", "fullName", "title">>

LocationKeys == <<"location", "city", "region", "locality">>

LanguagesKeys == <<"languages", "language", "languageSkills">>

ExperienceKeys == <<"experience", "positions", "work_history", "experiences">>

EducationKeys == <<"education", "schools", "educations">>

\* d.get(k1, d.get(k2, d.get(k3, ''))): the first key present decides.
RECURSIVE GetFirstPresent(_, _)
GetFirstPresent(m, keys) ==
    IF keys = <<>> THEN Str(<<>>)
    ELSE IF Head(keys) \in DOMAIN m THEN m[Head(keys)]
    ELSE GetFirstPresent(m, Tail(keys))

\* for key in keys: if key in profile and profile[key]: ...; break
RECURSIVE FirstTruthy(_, _)
FirstTruthy(m, keys) ==
    IF keys = <<>> THEN <<>>
    ELSE IF Head(keys) \in DOMAIN m /\ Truthy(m[Head(keys)])
         THEN ToStr(m[Head(keys)])
    ELSE FirstTruthy(m, Tail(keys))

\* _extract_experience_data / _extract_education_data: the first key holding
\* a list, or text that decodes to one.
RECURSIVE ExtractListData(_, _)
ExtractListData(m, keys) ==
    IF keys = <<>> THEN <<>>
    ELSE IF Head(keys) \in DOMAIN m /\ m[Head(keys)].t = "list"
         THEN m[Head(keys)].v
    ELSE IF Head(keys) \in DOMAIN m /\ m[Head(keys)].t = "json"
                 /\ m[Head(keys)].v.t = "list"
         THEN m[Head(keys)].v.v
    ELSE ExtractListData(m, Tail(keys))

RECURSIVE JoinComma(_)
\* ", ".join(parts)
JoinComma(parts) ==
    IF parts = <<>> THEN <<>>
    ELSE IF Len(parts) = 1 THEN parts[1]
    ELSE parts[1] \o <<",">> \o JoinComma(Tail(parts))

\* lines 284-294: the first languages key present decides, whatever it holds.
RECURSIVE SpokenLanguages(_, _)
SpokenLanguages(m, keys) ==
    IF keys = <<>> THEN <<>>
    ELSE IF Head(keys) \in DOMAIN m
         THEN LET langs == m[Head(keys)]
              IN  IF langs.t = "list"
                  THEN JoinComma([k \in DOMAIN langs.v |->
                           IF langs.v[k].t = "map"
                           THEN IF "name" \in DOMAIN langs.v[k].v
                                THEN ToStr(langs.v[k].v["name"])
                                ELSE ToStr(langs.v[k])
                           ELSE ToStr(langs.v[k])])
                  ELSE IF langs.t = "str" THEN langs.v
                  ELSE <<>>
    ELSE SpokenLanguages(m, Tail(keys))

\* lines 316-318, 375-377: a mapping stands for its 'name'.
NameOf(val) ==
    ToStr(IF val.t = "map"
          THEN IF "name" \in DOMAIN val.v THEN val.v["name"] ELSE Str(<<>>)
          ELSE val)

\* lines 325-335: the text of a start or end date.
DateText(val) ==
    IF val.t = "map"
    THEN ToStr(IF "month" \in DOMAIN val.v THEN val.v["month"] ELSE Str(<<>>))
         \o ToStr(IF "year" \in DOMAIN val.v THEN val.v["year"] ELSE Str(<<>>))
    ELSE IF Truthy(val) THEN ToStr(val) ELSE <<>>

NoExperience ==
    [titles |-> <<>>, total |-> 0, target |-> 0, food |-> 0,
     current_company |-> <<>>, most_recent_end |-> NoDate]

\* One iteration of the experience loop (lines 312-357); `now` is the clock
\* reading of this iteration.
ExperienceStep(acc, exp, now, cfg) ==
    IF exp.t # "map" THEN acc
    ELSE LET company == NameOf(GetFirstPresent(exp.v, <<"company", "companyName", "organization">>))
             title == ToStr(GetFirstPresent(exp.v, <<"title", "position", "role">>))
             start == DateText(GetFirstPresent(exp.v, <<"start", "startDate", "start_date">>))
             end == DateText(GetFirstPresent(exp.v, <<"end", "endDate", "end_date">>))
             duration == IF start # <<>> THEN CalculateDuration(start, end, now) ELSE 0
             end_date == IF end # <<>> THEN ParseDate(end, now) ELSE now
             newer == /\ end_date # NoDate
                      /\ \/ acc.most_recent_end = NoDate
                         \/ DateAfter(end_date, acc.most_recent_end)
             isTarget == IsListed(company, cfg.target_companies)
         IN  [titles |-> IF isTarget /\ title # <<>>
                         THEN Append(acc.titles, title) ELSE acc.titles,
              total |-> acc.total + duration,
              target |-> IF isTarget THEN acc.target + duration ELSE acc.target,
              food |-> IF IsListed(company, cfg.food_retailers)
                       THEN acc.food + duration ELSE acc.food,
              current_company |-> IF newer THEN company ELSE acc.current_company,
              most_recent_end |-> IF newer THEN end_date ELSE acc.most_recent_end]

RECURSIVE ExperienceLoop(_, _, _, _)
\* The loop over the first n entries; clock[k] is the reading in iteration k.
ExperienceLoop(exps, n, clock, cfg) ==
    IF n = 0 THEN NoExperience
    ELSE ExperienceStep(ExperienceLoop(exps, n - 1, clock, cfg), exps[n], clock[n], cfg)

OverrideTargetSchool(target_school, matched) ==
    IF matched # <<>> THEN matched ELSE target_school

\* lines 382-385: a target school already found is kept.
KeepTargetSchool(target_school, matched) ==
    IF target_school # <<>> THEN target_school ELSE matched

\* token_sort_ratio of a name against each target school; a name the score
\* table does not list scores 0.
ScoresOf(cfg, school) ==
    IF school \in DOMAIN cfg.scores THEN cfg.scores[school]
    ELSE [k \in DOMAIN cfg.target_schools |-> 0]

NoEducation == [school_names |-> <<>>, target_school |-> <<>>]

\* One iteration of the education loop (lines 370-386).  cfg.scores[name][k]
\* is token_sort_ratio(name, target_schools[k]).
EducationStep(acc, edu, cfg) ==
    IF edu.t # "map" THEN acc
    ELSE LET school == NameOf(GetFirstPresent(edu.v, <<"school", "schoolName", "institution">>))
         IN  IF school = <<>> THEN acc
             ELSE [school_names |-> Append(acc.school_names, school),
                   target_school |-> KeepTargetSchool(acc.target_school,
                       FuzzyMatchSchool(school, cfg.target_schools, ScoresOf(cfg, school)))]

RECURSIVE EducationLoop(_, _, _)
EducationLoop(edus, n, cfg) ==
    IF n = 0 THEN NoEducation
    ELSE EducationStep(EducationLoop(edus, n - 1, cfg), edus[n], cfg)

\* lines 246-261: the record before anything is extracted.
DefaultRecordNoUrl(url) ==
    [name |-> <<>>, job_titles_at_target_companies |-> <<>>,
     total_years_experience |-> 0, years_at_target_companies |-> 0,
     current_company |-> <<>>, linkedin_url |-> 0, schools_attended |-> <<>>,
     target_school |-> <<>>, spoken_languages |-> <<>>, english_flag |-> <<>>,
     city_location |-> <<>>, paris_flag |-> <<>>, years_at_food_retailers |-> 0]

\* extract_profile_fields lines 246-261: the record before any field is set.
DefaultRecord(url) ==
    [name |-> <<>>, job_titles_at_target_companies |-> <<>>,
     total_years_experience |-> 0, years_at_target_companies |-> 0,
     current_company |-> <<>>, linkedin_url |-> url, schools_attended |-> <<>>,
     target_school |-> <<>>, spoken_languages |-> <<>>, english_flag |-> <<>>,
     city_location |-> <<>>, paris_flag |-> <<>>, years_at_food_retailers |-> 0]

AllKeys ==
    Range(NameKeys) \cup Range(LocationKeys) \cup Range(LanguagesKeys)
    \cup Range(ExperienceKeys) \cup Range(EducationKeys)

\* Whether extract_profile_fields raises on what _parse_profile_data
\* returned: `key in profile` is a TypeError on a number or null, and
\* profile[key] is one on a list or text that holds the key.
ProfileRaises(profile) ==
    CASE profile.t = "map" -> FALSE
      [] profile.t \in {"list", "str"} -> \E key \in AllKeys : KeyIn(key, profile)
      [] OTHER -> TRUE

\* extract_profile_fields on a mapping.  The *_years* fields are in
\* half-years.
ExtractFromMap(m, url, clock, cfg) ==
    LET location == FirstTruthy(m, LocationKeys)
        languages == SpokenLanguages(m, LanguagesKeys)
        exps == ExtractListData(m, ExperienceKeys)
        x == ExperienceLoop(exps, Len(exps), clock, cfg)
        edus == ExtractListData(m, EducationKeys)
        e == EducationLoop(edus, Len(edus), cfg)
    IN  [DefaultRecord(url) EXCEPT
         !.name = FirstTruthy(m, NameKeys),
         !.job_titles_at_target_companies = JoinComma(x.titles),
         !.total_years_experience = x.total,
         !.years_at_target_companies = x.target,
         !.current_company = x.current_company,
         !.schools_attended = JoinComma(e.school_names),
         !.target_school = e.target_school,
         !.spoken_languages = languages,
         !.english_flag = IF Contains(languages, <<"english">>)
                             \/ Contains(languages, <<"anglais">>)
                          THEN <<"english">> ELSE <<>>,
         !.city_location = location,
         !.paris_flag = IF Contains(location, <<"paris">>)
                           \/ Contains(location, <<"ile-de-france">>)
                        THEN <<"paris", "et", "peripherie">> ELSE <<>>,
         !.years_at_food_retailers = x.food]

\* extract_profile_fields: [raised, record].  clock[k] is the reading of the
\* clock in iteration k of the experience loop.
ExtractAllFields(raw, url, clock, cfg) ==
    LET profile == ParseProfileData(raw)
    IN  IF ProfileRaises(profile)
        THEN [raised |-> TRUE, record |-> DefaultRecord(url)]
        ELSE [raised |-> FALSE,
              record |-> IF profile.t = "map"
                         THEN ExtractFromMap(profile.v, url, clock, cfg)
                         ELSE DefaultRecord(url)]

\* ------------------------------------------------------ calculator inputs
\* Sequences over S of length 0..n.
SeqsUpTo(S, n) == UNION {[1..k -> S] : k \in 0..n}

DateTexts ==
    {<<>>, <<"present">>, <<"soon">>}
    \cup {<<y>> : y \in DOMAIN YearValue}
    \cup {<<m, y>> : m \in DOMAIN MonthValue, y \in DOMAIN YearValue}

\* Readings of the clock, at the first of two instants of the month.
Nows == {<<y, m, 1>> : y \in {2020, 2021}, m \in {1, 4, 6}}

ParseInputs == [op : {"parse"}, text : DateTexts, now : Nows]

DurationInputs ==
    [op : {"duration"}, start : DateTexts, end : DateTexts, now : Nows]

SchoolNames == {<<"hec">>, <<"essec">>}

TargetSchools == {<<"hec", "paris">>, <<"essec", "business", "school">>}

Scores == {0, 84, 85, 100}

\* token_sort_ratio scores an empty name 0 against everything.
FuzzyInputs ==
    UNION {[op : {"fuzzy"}, school_name : {<<"hec">>}, target_schools : {ts},
            scores : [DOMAIN ts -> Scores]]
           \cup [op : {"fuzzy"}, school_name : {<<>>}, target_schools : {ts},
                 scores : {[k \in DOMAIN ts |-> 0]}]
           : ts \in SeqsUpTo(TargetSchools, MaxTargets)}

TargetCompanies == << <<"acme">> >>

FoodRetailers == << <<"grocer">> >>

NoSchools ==
    [target_companies |-> TargetCompanies, food_retailers |-> FoodRetailers,
     target_schools |-> <<>>, scores |-> [s \in SchoolNames |-> <<>>]]

\* The clock read once per entry: it never goes back, and may or may not
\* have advanced between two readings.
Clocks ==
    {c \in [1..MaxEntries -> {<<2020, 6, t>> : t \in 1..2}] :
        /\ c[1][3] = 1
        /\ \A k \in 1..(MaxEntries - 1) : c[k][3] <= c[k + 1][3]}

FixedClock == [k \in 1..MaxEntries |-> <<2020, 6, 1>>]

ExperienceEntries ==
    {Map(("company" :> Str(c)) @@ ("start" :> Str(s)) @@ ("end" :> Str(e))) :
        c \in {<<"acme">>, <<"acme", "grocer">>, <<"other">>},
        s \in {<<>>, <<"jan", "2019">>, <<"jun", "2020">>},
        e \in {<<>>, <<"jan", "2019">>, <<"jun", "2020">>, <<"soon">>}}

ExperienceInputs ==
    [op : {"normalize"}, family : {"experience"},
     raw : {Map("experience" :> List(es)) : es \in SeqsUpTo(ExperienceEntries, MaxEntries)},
     url : {1}, clock : Clocks, cfg : {NoSchools}]

EducationEntries ==
    {Num(<<"7">>)} \cup {Map("school" :> Str(s)) : s \in SchoolNames \cup {<<>>}}

SchoolConfigs ==
    {NoSchools}
    \cup [target_companies : {TargetCompanies}, food_retailers : {FoodRetailers},
          target_schools : {<< <<"hec", "paris">>, <<"essec", "business", "school">> >>},
          scores : [SchoolNames -> [1..2 -> {84, 85, 100}]]]

EducationInputs ==
    [op : {"normalize"}, family : {"education"},
     raw : {Map("education" :> List(es)) : es \in SeqsUpTo(EducationEntries, MaxEntries)},
     url : {1}, clock : {FixedClock}, cfg : SchoolConfigs]

\* A mapping as the MCP server is expected to send it.
PlainProfile ==
    Map(("name" :> Str(<<"ada">>)) @@ ("location" :> Str(<<"paris">>))
        @@ ("languages" :> List(<<Str(<<"english">>), Map("name" :> Str(<<"french">>)), Num(<<"7">>)>>))
        @@ ("experience" :> List(<<Map(("company" :> Map("name" :> Str(<<"acme">>)))
                                       @@ ("title" :> Str(<<"buyer">>))
                                       @@ ("start" :> Str(<<"jan", "2019">>)))>>)))

\* Mappings whose entries are missing, are not mappings, or hold values of
\* another type than expected.
OddProfiles ==
    {EmptyMap,
     Map("experience" :> Num(<<"7">>)),
     Map("experience" :> Null),
     Map("experience" :> List(<<Num(<<"7">>), Str(<<"acme">>), Null, EmptyMap>>)),
     Map("experience" :> List(<<Map(("company" :> Num(<<"7">>)) @@ ("title" :> Null)
                                    @@ ("start" :> Num(<<"2019">>)) @@ ("end" :> List(<<>>)))>>)),
     Map("experience" :> Json(List(<<Map("company" :> Str(<<"acme">>))>>))),
     Map("education" :> Str(<<"hec">>)),
     Map("education" :> List(<<Null, Map("school" :> Num(<<"7">>)), Map("school" :> Null),
                               Map("degree" :> Str(<<"mba">>))>>)),
     Map("languages" :> Num(<<"7">>)),
     Map("languages" :> List(<<Null, List(<<>>), EmptyMap>>)),
     Map(("name" :> Null) @@ ("full_name" :> Num(<<"7">>)) @@ ("location" :> List(<<>>)))}

\* What result.content[0].text, or a caller, can hand over as raw_data.
RawPayloads ==
    {Null, Text(<<>>), Text(<<"not", "json">>),
     Json(Num(<<"7">>)), Json(Null), Json(Str(<<"hello">>)), Json(Str(<<"name">>)),
     Json(List(<<>>)), Json(List(<<Num(<<"7">>), Str(<<"hello">>)>>)),
     Json(List(<<Str(<<"name">>)>>)),
     Num(<<"7">>), List(<<Str(<<"hello">>)>>),
     PlainProfile, Json(PlainProfile)}
    \cup OddProfiles \cup {Json(p) : p \in OddProfiles}

ShapeInputs ==
    [op : {"normalize"}, family : {"shape"}, raw : RawPayloads, url : {1},
     clock : {[k \in 1..4 |-> <<2020, 6, 1>>]}, cfg : {NoSchools}]

\* What a pair of alias keys can hold: nothing, an empty text, a text.
AliasPairs(first, second, words) ==
    {<<>>} \cup {first :> Str(a) : a \in {<<>>, words}}
    \cup {second :> Str(b) : b \in {<<>>, words}}
    \cup {(first :> Str(a)) @@ (second :> Str(b)) :
             a \in {<<>>, words}, b \in {<<>>, <<"other">>}}

AliasProfiles ==
    {Map(f) : f \in AliasPairs("name", "full_name", <<"ada">>)}
    \cup {Map(f) : f \in AliasPairs("location", "city", <<"lyon">>)}
    \cup {Map(f) : f \in AliasPairs("languages", "language", <<"french">>)}
    \cup {Map("experience" :> List(<<Map(f)>>)) :
             f \in AliasPairs("company", "companyName", <<"acme">>)}
    \cup {Map("education" :> List(<<Map(f)>>)) :
             f \in AliasPairs("school", "schoolName", <<"hec">>)}

AliasInputs ==
    [op : {"normalize"}, family : {"alias"}, raw : AliasProfiles, url : {1},
     clock : {FixedClock}, cfg : {NoSchools}]

\* Payloads that hold a url of their own, under the keys a record or a
\* result uses.
UrlProfiles ==
    {Map(("url" :> u) @@ ("linkedin_url" :> u) @@ ("name" :> Str(<<"ada">>))) :
        u \in {Str(<<"elsewhere">>), Num(<<"7">>), Null}}

UrlInputs ==
    [op : {"normalize"}, family : {"url"},
     raw : UrlProfiles \cup {Json(p) : p \in UrlProfiles} \cup {Null, Json(List(<<>>))},
     url : {1, 2}, clock : {FixedClock}, cfg : {NoSchools}]

AggregationEntries ==
    {Map(("company" :> Str(c)) @@ ("title" :> Str(t))
         @@ ("start" :> Str(d[1])) @@ ("end" :> Str(d[2]))) :
        c \in {<<"acme">>, <<"acme", "grocer">>, <<"other">>},
        t \in {<<>>, <<"buyer">>},
        d \in {<< <<"jan", "2019">>, <<"jun", "2020">> >>,
               << <<"apr", "2020">>, <<>> >>,
               << <<>>, <<>> >>}}

AggregationInputs ==
    [op : {"normalize"}, family : {"aggregation"},
     raw : {Map("experience" :> List(es)) : es \in SeqsUpTo(AggregationEntries, MaxEntries)},
     url : {1}, clock : {FixedClock}, cfg : {NoSchools}]

CalcInputs ==
    DurationInputs \cup FuzzyInputs \cup ExperienceInputs \cup EducationInputs
    \cup ShapeInputs \cup AliasInputs \cup AggregationInputs \cup ParseInputs
    \cup UrlInputs

NoCalc == [op |-> "none"]

calcVars == <<calcIn, calcOut, calcDone>>

pipelineVars ==
    <<sink, discovery, run, allResume, pc, resume, batch_size,
      already_processed, profile_urls, i, attempt, results,
      processed_profiles, fetched, log, lastError, flushes, written,
      startRows, readOk, profile_data, delay, progress>>

TypeOK ==
    /\ sink.exists \in BOOLEAN
    /\ run \in 0..MaxRuns
    /\ pc \in {"idle", "fetch", "ratelimit", "export", "done", "crashed", "failed",
              "interrupted"}
    /\ attempt \in 0..(max_retries - 1)

Init ==
    /\ sink = NoFile
    /\ discovery \in DiscoveryOutputs
    /\ run = 0
    /\ allResume = TRUE
    /\ pc = "idle"
    /\ resume = FALSE
    /\ batch_size = 1
    /\ already_processed = {}
    /\ profile_urls = <<>>
    /\ i = 1
    /\ attempt = 0
    /\ results = <<>>
    /\ processed_profiles = <<>>
    /\ fetched = {}
    /\ log = <<>>
    /\ lastError = NoError
    /\ flushes = <<>>
    /\ written = {}
    /\ startRows = <<>>
    /\ readOk = TRUE
    /\ profile_data = "none"
    /\ delay = 0
    /\ progress = <<>>
    /\ calcIn = NoCalc
    /\ calcOut = <<>>
    /\ calcDone = FALSE

\* scrape_profiles lines 85-110: up to the start of the fetch loop.
StartRun ==
    \E r \in BOOLEAN, b \in 1..MaxBatch, ok \in BOOLEAN :
        LET processed == IF r THEN GetProcessedUrls(sink, ok) ELSE {}
            urls == IF processed # {} THEN FilterNew(discovery, processed)
                    ELSE discovery
        IN  /\ pc \in {"idle", "done", "crashed", "failed", "interrupted"}
            /\ run < MaxRuns
            /\ (ok \/ (r /\ sink.exists))
            /\ run' = run + 1
            /\ allResume' = (allResume /\ r)
            /\ resume' = r
            /\ batch_size' = b
            /\ already_processed' = processed
            /\ profile_urls' = urls
            /\ pc' = IF urls = <<>> THEN "done" ELSE "fetch"
            /\ i' = 1
            /\ attempt' = 0
            /\ results' = <<>>
            /\ processed_profiles' = <<>>
            /\ fetched' = {}
            /\ log' = <<>>
            /\ lastError' = NoError
            /\ flushes' = <<>>
            /\ written' = {}
            /\ startRows' = sink.rows
            /\ readOk' = ok
            /\ profile_data' = "none"
            /\ delay' = 0
            /\ progress' = <<>>
            /\ UNCHANGED <<sink, discovery, calcVars>>

FlushOnMultiple(buffered, n, b) == n > 0 /\ n % b = 0

\* progress_callback lines 116-125: the batch test is reached only after the
\* append of a record; n is the length of the buffer after it.
ShouldFlush(buffered, n, b) == buffered /\ n % b = 0

\* fetch_profiles_batch lines 180-184 with progress_callback (main.py
\* 112-131): the result is appended and handed to the callback, which
\* normalizes, buffers and possibly flushes; then the loop moves on.
Deliver(result, w) ==
    LET buffered == IsSuccess(result) /\ ~NormalizeRaises(result.raw_data)
        profiles == IF buffered
                    THEN Append(processed_profiles, ExtractProfileFields(result))
                    ELSE processed_profiles
        flush    == ShouldFlush(buffered, Len(profiles), batch_size)
        saved    == SaveBatch(sink, profiles, resume, w)
        raised   == ~IsSuccess(result) /\ result.kind = "None"
    IN  /\ results' = Append(results, result)
        /\ progress' = Append(progress, [current |-> i, total |-> Len(profile_urls)])
        /\ processed_profiles' = profiles
        /\ IF flush
           THEN /\ sink' = saved.sink
                /\ flushes' = Append(flushes,
                       [kind |-> "batch", mode |-> saved.mode, n |-> saved.n,
                        ok |-> saved.ok, at |-> Len(results) + 1])
                /\ written' = written \cup
                       (IF saved.mode = "create" /\ ~saved.ok THEN {}
                        ELSE UrlsOf(SubSeq(profiles, 1, saved.n)))
           ELSE UNCHANGED <<sink, flushes, written>>
        /\ IF raised THEN pc' = "crashed" /\ UNCHANGED i
           ELSE IF i = Len(profile_urls) THEN pc' = "export" /\ UNCHANGED i
           ELSE pc' = "fetch" /\ i' = i + 1
        /\ attempt' = 0

\* One iteration of fetch_profile's retry loop (lines 108-154) up to its
\* return or to the rate-limit sleep and, when it ends the identifier, the
\* rest of the fetch_profiles_batch iteration.
FetchStep ==
    \E o \in Outcomes :
        LET url == profile_urls[i]
            entry == [attempt |-> attempt, wait |-> ExponentialBackoff(attempt),
                      kind |-> o.kind]
        IN  /\ pc = "fetch"
            /\ fetched' = fetched \cup {url}
            /\ log' = IF attempt = 0 THEN <<entry>> ELSE Append(log, entry)
            /\ lastError' = IF o.kind = "error" THEN ErrorOf(attempt) ELSE NoError
            /\ CASE o.kind = "ok" ->
                       /\ pc' = "ratelimit"
                       /\ profile_data' = o.raw
                       /\ delay' \in RateLimitDelays
                       /\ UNCHANGED <<sink, results, processed_profiles, flushes,
                                      written, i, attempt, progress>>
                 [] o.kind = "error" /\ ~LastAttempt(attempt) ->
                       /\ attempt' = attempt + 1
                       /\ UNCHANGED <<sink, results, processed_profiles, flushes,
                                      written, pc, i, profile_data, delay,
                                      progress>>
                 [] OTHER ->
                       /\ Deliver(IF o.kind = "empty" THEN NoneResult
                                  ELSE FailureResult(url, ErrorOf(attempt)),
                                  NoWrite)
                       /\ UNCHANGED <<profile_data, delay>>
            /\ UNCHANGED <<discovery, run, allResume, resume, batch_size,
                           already_processed, profile_urls, startRows, readOk,
                           calcVars>>

\* fetch_profile lines 128-138 and the rest of the fetch_profiles_batch
\* iteration: the rate-limit sleep, then the return of the Success, which is
\* appended and handed to the callback.
RateLimitDelay ==
    \E w \in WriteOutcomes :
        /\ pc = "ratelimit"
        /\ w.ok \/ WriteFaults(flushes) < MaxWriteFaults
        /\ delay' = 0
        /\ profile_data' = "none"
        /\ Deliver(SuccessResult(profile_urls[i], profile_data), w)
        /\ UNCHANGED <<discovery, run, allResume, resume, batch_size,
                       already_processed, profile_urls, fetched, log, lastError,
                       startRows, readOk, calcVars>>

\* scrape_profiles lines 146-166: the final export_to_csv, whose exception
\* propagates.
FinalExport ==
    \E ok \in BOOLEAN :
        /\ pc = "export"
        /\ ok \/ WriteFaults(flushes) < MaxWriteFaults
        /\ IF processed_profiles # <<>>
           THEN /\ sink' = IF ok THEN ExportToCsv(sink, processed_profiles) ELSE sink
                /\ flushes' = Append(flushes,
                       [kind |-> "final", mode |-> "create",
                        n |-> IF ok THEN Len(processed_profiles) ELSE 0,
                        ok |-> ok, at |-> Len(results)])
                /\ written' = IF ok THEN written \cup UrlsOf(processed_profiles)
                              ELSE written
                /\ pc' = IF ok THEN "done" ELSE "failed"
           ELSE /\ ok
                /\ pc' = "done"
                /\ UNCHANGED <<sink, flushes, written>>
        /\ UNCHANGED <<discovery, run, allResume, resume, batch_size,
                       already_processed, profile_urls, i, attempt, results,
                       processed_profiles, fetched, log, lastError, startRows,
                       readOk, profile_data, delay, progress, calcVars>>

\* main lines 314-316: KeyboardInterrupt while the fetch loop is suspended.
Interrupt ==
    /\ pc \in {"fetch", "ratelimit"}
    /\ pc' = "interrupted"
    /\ UNCHANGED <<sink, discovery, run, allResume, resume, batch_size,
                   already_processed, profile_urls, i, attempt, results,
                   processed_profiles, fetched, log, lastError, flushes,
                   written, startRows, readOk, profile_data, delay, progress,
                   calcVars>>

Next == StartRun \/ FetchStep \/ RateLimitDelay \/ FinalExport \/ Interrupt

Spec == Init /\ [][Next]_vars

\* ======================================================================
\* The calculator on its own: an input is drawn, the function is applied.
\* ======================================================================
InitCalc ==
    /\ sink = NoFile
    /\ discovery = <<>>
    /\ run = 0
    /\ allResume = TRUE
    /\ pc = "idle"
    /\ resume = FALSE
    /\ batch_size = 1
    /\ already_processed = {}
    /\ profile_urls = <<>>
    /\ i = 1
    /\ attempt = 0
    /\ results = <<>>
    /\ processed_profiles = <<>>
    /\ fetched = {}
    /\ log = <<>>
    /\ lastError = NoError
    /\ flushes = <<>>
    /\ written = {}
    /\ startRows = <<>>
    /\ readOk = TRUE
    /\ profile_data = "none"
    /\ delay = 0
    /\ progress = <<>>
    /\ calcIn \in CalcInputs
    /\ calcOut = <<>>
    /\ calcDone = FALSE

ApplyParseDate ==
    /\ ~calcDone
    /\ calcIn.op = "parse"
    /\ calcOut' = ParseDate(calcIn.text, calcIn.now)
    /\ calcDone' = TRUE
    /\ UNCHANGED <<calcIn, pipelineVars>>

ApplyCalculateDuration ==
    /\ ~calcDone
    /\ calcIn.op = "duration"
    /\ calcOut' = CalculateDuration(calcIn.start, calcIn.end, calcIn.now)
    /\ calcDone' = TRUE
    /\ UNCHANGED <<calcIn, pipelineVars>>

ApplyFuzzyMatchSchool ==
    /\ ~calcDone
    /\ calcIn.op = "fuzzy"
    /\ calcOut' = FuzzyMatchSchool(calcIn.school_name, calcIn.target_schools, calcIn.scores)
    /\ calcDone' = TRUE
    /\ UNCHANGED <<calcIn, pipelineVars>>

ApplyExtractProfileFields ==
    /\ ~calcDone
    /\ calcIn.op = "normalize"
    /\ calcOut' = ExtractAllFields(calcIn.raw, calcIn.url, calcIn.clock, calcIn.cfg)
    /\ calcDone' = TRUE
    /\ UNCHANGED <<calcIn, pipelineVars>>

NextCalc ==
    \/ ApplyParseDate
    \/ ApplyCalculateDuration
    \/ ApplyFuzzyMatchSchool
    \/ ApplyExtractProfileFields

SpecCalc == InitCalc /\ [][NextCalc]_vars

\* ======================================================================
\* Properties
\* ======================================================================
Last(s) == s[Len(s)]

Count(rows, u) == Cardinality({k \in DOMAIN rows : rows[k].linkedin_url = u})

NoDuplicateRows(rows) ==
    \A a, b \in DOMAIN rows : a # b => rows[a].linkedin_url # rows[b].linkedin_url

Pos(s, x) == CHOOSE k \in DOMAIN s : s[k] = x

\* s holds exactly the elements of t outside X, each once, in t's order.
IsOrderedRest(s, t, X) ==
    /\ Range(s) = Range(t) \ X
    /\ Cardinality(Range(s)) = Len(s)
    /\ \A a, b \in DOMAIN s : a < b => Pos(t, s[a]) < Pos(t, s[b])

IsFailure(r) == r.kind = "dict" /\ ~r.success

\* C1: when every run so far was started with resume=true, no two rows of the
\* sink share a linkedin_url, in every state during and after the runs (stated
\* here for the runs in which no write to the sink has failed).
C1_ResumeSafety ==
    (allResume /\ WriteFaults(flushes) = 0) => NoDuplicateRows(sink.rows)

\* C2: every result of fetch_profiles_batch is a Success or a Failure carrying
\* the identifier at its position of the input, and a run that reaches the end
\* of the fetch loop holds one result per input identifier.
C2_OneResultPerIdentifier ==
    /\ \A k \in DOMAIN results :
           /\ results[k].kind = "dict"
           /\ results[k].url = profile_urls[k]
    /\ pc \in {"export", "done", "failed"} => Len(results) = Len(profile_urls)

\* C3: no fault while processing one identifier aborts the run: the run never
\* ends in the fetch loop on an exception, and a completed run has fetched
\* every identifier.
C3_Isolation ==
    /\ pc # "crashed"
    /\ pc = "done" => Len(results) = Len(profile_urls)

\* C4: with N buffered records and batch size b there are floor(N/b)
\* intermediate flushes of exactly b records each, then a final flush of the
\* N mod b remaining records (none being needed when that is 0), and the sink
\* then holds the header and N rows.
C4_FlushSchedule ==
    LET N == Len(processed_profiles)
        q == N \div batch_size
        batch == {k \in DOMAIN flushes : flushes[k].kind = "batch"}
    IN  /\ \A k \in batch : flushes[k].ok => flushes[k].n = batch_size
        /\ (pc = "done" /\ N > 0 /\ WriteFaults(flushes) = 0) =>
               /\ batch = 1..q
               /\ \A k \in DOMAIN flushes \ batch : flushes[k].n = N % batch_size
               /\ Len(flushes) \in {q, q + 1}
               /\ sink.header
               /\ Len(sink.rows) = N

\* C5: during a run the sink only grows: the rows it held when a resume run
\* started, and every linkedin_url the run has written, are still in it
\* (stated here for the runs in which no write to the sink has failed).
C5_SinkOnlyGrows ==
    /\ (run > 0 /\ resume /\ WriteFaults(flushes) = 0) =>
           \A k \in DOMAIN startRows : startRows[k] \in Range(sink.rows)
    /\ written \subseteq UrlsOf(sink.rows)

C7_SinkFailureFatal ==
    \A k \in DOMAIN flushes :
        ~flushes[k].ok =>
            /\ pc = "failed"
            /\ k = Len(flushes)
            /\ flushes[k].at = Len(results)

\* The step that delivers a Failure to the callback.
C8_FailureStep ==
    (Len(results') = Len(results) + 1 /\ IsFailure(Last(results'))) =>
        /\ UNCHANGED <<sink, processed_profiles, flushes, written>>
        /\ IF i < Len(profile_urls)
           THEN pc' = "fetch" /\ i' = i + 1 /\ attempt' = 0
           ELSE pc' = "export"

\* What holds of every Failure among the results.
C8_FailureInv ==
    \A k \in DOMAIN results :
        IsFailure(results[k]) =>
            LET u == results[k].url
            IN  /\ u = profile_urls[k]
                /\ \A j \in DOMAIN results :
                       (results[j].kind = "dict" /\ results[j].url = u) => j = k
                /\ u \notin written
                /\ u \notin UrlsOf(processed_profiles)
                /\ Count(sink.rows, u) <= Count(startRows, u)

\* C8: an identifier whose fetch failed on all max_retries attempts has exactly
\* one result, a Failure; the run never buffers or writes a record for it (the
\* sink holds no more rows for it than at run start); and delivering the
\* Failure changes neither buffer nor sink and moves on to the next identifier.
C8_FailureRecordedOnce == []C8_FailureInv /\ [][C8_FailureStep]_vars

C8_Witness ==
    /\ pc = "done"
    /\ Len(results) = 2
    /\ IsFailure(results[1])
    /\ IsSuccess(results[2])
    /\ results[2].url \in written
    /\ results[2].url \in UrlsOf(sink.rows)

C10_BackoffFunction ==
    \A a \in 0..MaxAttempt :
        /\ ExponentialBackoff(a) = IF a = 0 THEN 0
                                   ELSE IF 30 * 2^a < 120 THEN 30 * 2^a ELSE 120
        /\ ExponentialBackoff(a) <= 120
        /\ \A c \in 0..a : ExponentialBackoff(c) <= ExponentialBackoff(a)

\* C10: the backoff slept before attempt k is 0 for k = 0 and
\* min(30 * 2^k, 120) seconds for k > 0, so it never exceeds 120 and does not
\* decrease with k; this holds of the attempts made and of the function.
C10_Backoff ==
    /\ \A k \in DOMAIN log :
           /\ log[k].wait = IF log[k].attempt = 0 THEN 0
                            ELSE IF 30 * 2^(log[k].attempt) < 120
                                 THEN 30 * 2^(log[k].attempt) ELSE 120
           /\ log[k].wait <= 120
           /\ \A j \in 1..k : log[j].wait <= log[k].wait
    /\ C10_BackoffFunction

C10_Witness ==
    /\ Len(log) = max_retries
    /\ log[1].wait = 0
    /\ log[2].wait = 60
    /\ log[3].wait = 120

\* C11 as stated: the Success is emitted first and the rate-limit sleep is
\* served after it, so while the sleep for identifier i is being served the
\* result of identifier i is already among the results.
C11_EmitThenSleep ==
    pc = "ratelimit" => Len(results) = i

\* While the rate-limit sleep is served, and outside it.
C11_SleepInv ==
    /\ pc = "ratelimit" =>
           /\ min_delay <= delay /\ delay <= max_delay
           /\ Last(log).kind = "ok"
           /\ profile_data # "none"
           /\ Len(results) = i - 1
    /\ pc \notin {"ratelimit", "interrupted"} => delay = 0

\* The steps that emit a result or make a call.
C11_SleepStep ==
    /\ (Len(results') = Len(results) + 1 /\ IsSuccess(Last(results'))) =>
           /\ pc = "ratelimit"
           /\ min_delay <= delay /\ delay <= max_delay
           /\ delay' = 0
           /\ log' = log
    /\ (Len(results') = Len(results) + 1 /\ ~IsSuccess(Last(results'))) =>
           pc = "fetch" /\ delay = 0 /\ delay' = 0
    /\ (log' # log /\ log' # <<>>) => pc = "fetch" /\ delay = 0

\* C11 amended: after a call that returned content the executor first sleeps
\* a rate-limit delay d with min_delay <= d <= max_delay and only then emits
\* the Success; no call is made while the sleep is served, so the next fetch
\* starts only after it; the delay is the same range whatever the attempt
\* number and its backoff; a result that is not a Success is emitted without
\* a rate-limit sleep.
C11_SleepThenEmit == []C11_SleepInv /\ [][C11_SleepStep]_vars

C11_Witness ==
    /\ pc = "fetch"
    /\ Len(results) = 1
    /\ IsSuccess(results[1])
    /\ Len(log) = 2
    /\ log[2].wait = 60
    /\ log[2].kind = "ok"
    /\ delay = 0

\* C12: on_progress is called exactly once for every identifier of the input,
\* with current = 1..total in input order and total the input's length,
\* whatever the result; the fetch of the next identifier starts only after
\* the call for the previous one; a run that has left the fetch loop has made
\* the call for every identifier.
C12_ProgressPerIdentifier ==
    /\ Len(progress) = Len(results)
    /\ \A k \in DOMAIN progress :
           progress[k] = [current |-> k, total |-> Len(profile_urls)]
    /\ pc \in {"fetch", "ratelimit"} => Len(progress) = i - 1
    /\ pc \in {"export", "done", "failed", "crashed"} =>
           Len(progress) = Len(profile_urls)

\* The rows of the sink that the current run wrote: all of them once the run
\* has rewritten the file, else those after the rows present at run start.
CurrentRunRows ==
    IF \E k \in DOMAIN flushes : flushes[k].mode = "create" /\ flushes[k].ok
    THEN sink.rows
    ELSE SubSeq(sink.rows, Len(startRows) + 1, Len(sink.rows))

\* C13: in every state of the sink the rows written by the current run are in
\* the order of their identifiers in the input: each row's identifier comes
\* later in the input than the identifier of the row before it (stated here
\* for the runs in which no write to the sink has failed).
C13_RowsInInputOrder ==
    (run > 0 /\ WriteFaults(flushes) = 0) =>
        /\ UrlsOf(CurrentRunRows) \subseteq Range(profile_urls)
        /\ \A a, b \in DOMAIN CurrentRunRows :
               a < b => Pos(profile_urls, CurrentRunRows[a].linkedin_url)
                            < Pos(profile_urls, CurrentRunRows[b].linkedin_url)

Normalized == calcDone /\ calcIn.op = "normalize"

\* C14: extract_profile_fields never raises: for every shape of raw payload
\* (a mapping, text that decodes to a mapping, to a list, to a number or to
\* null, text that does not decode, null, mappings with missing, non-mapping
\* or oddly typed entries) it returns a record.
C14_NormalizeNeverRaises ==
    Normalized => ~calcOut.raised

\* C15: in every record extract_profile_fields returns,
\* total_years_experience, years_at_target_companies and
\* years_at_food_retailers are non-negative multiples of 0.5 (whole numbers
\* of half-years here), whatever the experience entries, an end before its
\* start included.
C15_YearsNonNegative ==
    (Normalized /\ ~calcOut.raised) =>
        /\ calcOut.record.total_years_experience \in Nat
        /\ calcOut.record.years_at_target_companies \in Nat
        /\ calcOut.record.years_at_food_retailers \in Nat

BestScore(scores) ==
    IF scores = <<>> THEN -1
    ELSE CHOOSE b \in Range(scores) : \A x \in Range(scores) : x <= b

EducationOf == calcIn.raw.v["education"].v

SchoolOf(k) ==
    IF EducationOf[k].t = "map" /\ "school" \in DOMAIN EducationOf[k].v
    THEN EducationOf[k].v["school"].v ELSE <<>>

\* C19: target_school is the match of the first education entry whose school
\* scores at least 85 against a target school, whatever later entries score,
\* and is empty when there is none; schools_attended is the non-empty school
\* names, comma-joined in the order of the entries.
C19_FirstMatchKept ==
    (Normalized /\ calcIn.family = "education") =>
        LET cfg == calcIn.cfg
            matching == {k \in DOMAIN EducationOf :
                            /\ SchoolOf(k) # <<>>
                            /\ BestScore(cfg.scores[SchoolOf(k)]) >= 85}
            named == SelectSeq([k \in DOMAIN EducationOf |-> SchoolOf(k)],
                               LAMBDA n : n # <<>>)
        IN  /\ ~calcOut.raised
            /\ calcOut.record.schools_attended = JoinComma(named)
            /\ IF matching = {} THEN calcOut.record.target_school = <<>>
               ELSE LET first == CHOOSE k \in matching : \A j \in matching : k <= j
                    IN  \E t \in DOMAIN cfg.target_schools :
                            /\ calcOut.record.target_school = cfg.target_schools[t]
                            /\ cfg.scores[SchoolOf(first)][t]
                                   = BestScore(cfg.scores[SchoolOf(first)])

C19_Witness ==
    /\ Normalized /\ calcIn.family = "education"
    /\ Len(EducationOf) = 2
    /\ SchoolOf(1) = <<"hec">> /\ SchoolOf(2) = <<"essec">>
    /\ calcIn.cfg.target_schools # <<>>
    /\ calcIn.cfg.scores[<<"hec">>] = <<85, 84>>
    /\ calcIn.cfg.scores[<<"essec">>] = <<84, 100>>
    /\ calcOut.record.target_school = calcIn.cfg.target_schools[1]
    /\ calcOut.record.schools_attended = <<"hec", ",", "essec">>

\* The experience entries of the input, the end each resolves to (NoDate
\* when its text does not parse) and its place in time.
ExperienceOf == calcIn.raw.v["experience"].v

EndOf(k) ==
    IF ExperienceOf[k].v["end"].v = <<>> THEN calcIn.clock[k]
    ELSE ParseDate(ExperienceOf[k].v["end"].v, calcIn.clock[k])

Instant(d) == (d[1] * 12 + d[2]) * 10 + d[3]

\* The entries with a resolved end that no entry's end is later than.
Latest ==
    {k \in DOMAIN ExperienceOf :
        /\ EndOf(k) # NoDate
        /\ \A j \in DOMAIN ExperienceOf :
               EndOf(j) # NoDate => Instant(EndOf(j)) <= Instant(EndOf(k))}

\* C20 as stated: current_company is the company of the entry with the
\* latest resolved end, a missing end resolving to now; of several entries
\* with that same end, the one iterated last.
C20_LastOfLatest ==
    (Normalized /\ calcIn.family = "experience") =>
        IF Latest = {} THEN calcOut.record.current_company = <<>>
        ELSE LET k == CHOOSE a \in Latest : \A b \in Latest : b <= a
             IN  calcOut.record.current_company = ExperienceOf[k].v["company"].v

\* C20 amended: current_company is the company of the entry with the latest
\* resolved end, a missing end resolving to the clock reading taken when the
\* entry is processed and an end that does not parse leaving the entry out;
\* of several entries with that same end, the one iterated first.
C20_FirstOfLatest ==
    (Normalized /\ calcIn.family = "experience") =>
        IF Latest = {} THEN calcOut.record.current_company = <<>>
        ELSE LET k == CHOOSE a \in Latest : \A b \in Latest : a <= b
             IN  calcOut.record.current_company = ExperienceOf[k].v["company"].v

C20_Witness ==
    /\ Normalized /\ calcIn.family = "experience"
    /\ Len(ExperienceOf) = 2
    /\ ExperienceOf[1].v["end"].v = <<"jun", "2020">>
    /\ ExperienceOf[2].v["end"].v = <<"jun", "2020">>
    /\ ExperienceOf[1].v["company"].v = <<"acme">>
    /\ ExperienceOf[2].v["company"].v = <<"other">>
    /\ calcOut.record.current_company = <<"acme">>

\* The target schools of the model in lexicographic order.
Alphabetical == << <<"essec", "business", "school">>, <<"hec", "paris">> >>

\* The positions of the target schools that hold the best score.
Tied == {k \in DOMAIN calcIn.target_schools :
            calcIn.scores[k] = BestScore(calcIn.scores)}

\* C21 as stated: when several target schools tie for the highest score and
\* it is at least 85, _fuzzy_match_school returns the lexicographically
\* smallest of them, whatever the order of the list.
C21_SmallestOfTies ==
    (calcDone /\ calcIn.op = "fuzzy" /\ calcOut # <<>>) =>
        \A k \in Tied :
            Pos(Alphabetical, calcOut) <= Pos(Alphabetical, calcIn.target_schools[k])

\* C21 amended: when several target schools tie for the highest score and it
\* is at least 85, _fuzzy_match_school returns the tied one that comes first
\* in the list as it was loaded.
C21_FirstOfTies ==
    (calcDone /\ calcIn.op = "fuzzy" /\ calcOut # <<>>) =>
        /\ Tied # {}
        /\ calcOut = calcIn.target_schools[CHOOSE k \in Tied : \A j \in Tied : k <= j]

C21_Witness ==
    /\ calcDone /\ calcIn.op = "fuzzy"
    /\ calcIn.target_schools = << <<"hec", "paris">>, <<"essec", "business", "school">> >>
    /\ calcIn.scores = <<100, 100>>
    /\ calcOut = <<"hec", "paris">>

\* The text under the first of the keys that is present and not empty.
FirstNonEmpty(m, keys) ==
    LET ks == {k \in DOMAIN keys : keys[k] \in DOMAIN m /\ m[keys[k]].v # <<>>}
    IN  IF ks = {} THEN <<>>
        ELSE m[keys[CHOOSE k \in ks : \A j \in ks : k <= j]].v

\* The single entry of a list field of the input, the empty mapping when the
\* input has no such field.
OnlyEntry(field) ==
    IF field \in DOMAIN calcIn.raw.v THEN calcIn.raw.v[field].v[1].v ELSE <<>>

\* C22: every field resolved through a list of alias keys (name, location,
\* languages, and per entry company and school here) takes the value of the
\* first key, in priority order, that is present and not empty: a key that is
\* present but empty never hides a later key that holds a value.
C22_FirstNonEmptyAlias ==
    (Normalized /\ calcIn.family = "alias") =>
        /\ ~calcOut.raised
        /\ calcOut.record.name = FirstNonEmpty(calcIn.raw.v, NameKeys)
        /\ calcOut.record.city_location = FirstNonEmpty(calcIn.raw.v, LocationKeys)
        /\ calcOut.record.spoken_languages = FirstNonEmpty(calcIn.raw.v, LanguagesKeys)
        /\ calcOut.record.current_company
               = FirstNonEmpty(OnlyEntry("experience"), <<"company", "companyName", "organization">>)
        /\ calcOut.record.schools_attended
               = FirstNonEmpty(OnlyEntry("education"), <<"school", "schoolName", "institution">>)

RECURSIVE SumOver(_, _)
\* The sum of f over the set S of positions.
SumOver(f, S) ==
    IF S = {} THEN 0
    ELSE LET k == CHOOSE x \in S : TRUE IN f[k] + SumOver(f, S \ {k})

\* C23: total_years_experience is the sum of the durations of all experience
\* entries; years_at_target_companies is the sum over exactly the entries
\* whose company matches a target company and years_at_food_retailers over
\* exactly those whose company matches a food retailer, an entry matching
\* both counting in both; job_titles_at_target_companies is the titles of
\* the target-company entries in iteration order, repeated titles kept.
C23_Aggregation ==
    (Normalized /\ calcIn.family = "aggregation") =>
        LET entry(k) == ExperienceOf[k].v
            all == DOMAIN ExperienceOf
            duration == [k \in all |->
                            IF entry(k)["start"].v = <<>> THEN 0
                            ELSE CalculateDuration(entry(k)["start"].v, entry(k)["end"].v,
                                                   calcIn.clock[k])]
            target == {k \in all : "acme" \in Range(entry(k)["company"].v)}
            food == {k \in all : "grocer" \in Range(entry(k)["company"].v)}
            titles == SelectSeq([k \in all |->
                                    IF k \in target THEN entry(k)["title"].v ELSE <<>>],
                                LAMBDA t : t # <<>>)
        IN  /\ calcOut.record.total_years_experience = SumOver(duration, all)
            /\ calcOut.record.years_at_target_companies = SumOver(duration, target)
            /\ calcOut.record.years_at_food_retailers = SumOver(duration, food)
            /\ calcOut.record.job_titles_at_target_companies = JoinComma(titles)

C23_Witness ==
    /\ Normalized /\ calcIn.family = "aggregation"
    /\ Len(ExperienceOf) = 2
    /\ ExperienceOf[1].v["company"].v = <<"acme", "grocer">>
    /\ ExperienceOf[2].v["company"].v = <<"acme">>
    /\ calcOut.record.job_titles_at_target_companies = <<"buyer", ",", "buyer">>
    /\ calcOut.record.total_years_experience = 6
    /\ calcOut.record.years_at_target_companies = 6
    /\ calcOut.record.years_at_food_retailers = 3

\* C24: _parse_date applies its rules in order, the first that applies
\* deciding: present, current or now give the current instant; else a bare
\* 4-digit year gives January of that year; else a month word and a year
\* give that month of that year; text without a date gives None.
C24_RulesInOrder ==
    (calcDone /\ calcIn.op = "parse") =>
        LET words == calcIn.text
        IN  calcOut =
                CASE words \in {<<"present">>, <<"current">>, <<"now">>} -> calcIn.now
                  [] Len(words) = 1 /\ words[1] \in {"2019", "2020"} ->
                         <<IF words[1] = "2019" THEN 2019 ELSE 2020, 1, 0>>
                  [] Len(words) = 2 ->
                         <<IF words[2] = "2019" THEN 2019 ELSE 2020,
                           CASE words[1] = "jan" -> 1
                             [] words[1] = "apr" -> 4
                             [] OTHER -> 6,
                           0>>
                  [] OTHER -> NoDate

\* The results among the first n whose normalization returned a record.
NormalizedSoFar(n) ==
    SelectSeq(SubSeq(results, 1, n),
              LAMBDA r : r.kind = "dict" /\ r.success /\ r.raw_data = "mapping")

LastWritten == CHOOSE k \in DOMAIN flushes :
                   flushes[k].ok /\ \A j \in DOMAIN flushes : flushes[j].ok => j <= k

\* C25: in a run started with resume=false every flush rewrites the sink, and
\* after each intermediate flush and after the final write that succeeded the
\* sink holds the header and exactly one row for each identifier normalized
\* up to that flush, in the order of the input, and no row of an earlier run.
C25_FreshRewrite ==
    (run > 0 /\ ~resume) =>
        /\ \A k \in DOMAIN flushes : flushes[k].mode = "create"
        /\ (\E k \in DOMAIN flushes : flushes[k].ok) =>
               LET normalized == NormalizedSoFar(flushes[LastWritten].at)
               IN  /\ sink.exists /\ sink.header
                   /\ Len(sink.rows) = Len(normalized)
                   /\ \A k \in DOMAIN sink.rows :
                          sink.rows[k].linkedin_url = normalized[k].url
                   /\ NoDuplicateRows(sink.rows)
                   /\ \A a, b \in DOMAIN sink.rows :
                          a < b => Pos(profile_urls, sink.rows[a].linkedin_url)
                                       < Pos(profile_urls, sink.rows[b].linkedin_url)

C25_Witness ==
    /\ run = 2 /\ ~resume /\ batch_size = 1
    /\ Len(startRows) = 2
    /\ Len(flushes) = 1 /\ flushes[1].ok /\ flushes[1].kind = "batch"
    /\ Len(sink.rows) = 1
    /\ ~(UrlsOf(startRows) \subseteq UrlsOf(sink.rows))

AnsweredEmpty == log' # log /\ log' # <<>> /\ Last(log').kind = "empty"

\* C26: an attempt answered with an empty response ends its identifier in
\* that step, whatever attempts remain, without the rate-limit sleep; what is
\* appended to the results and handed to on_progress is None: not a dict, so
\* neither a Success nor a Failure, and without a url.
C26_EmptyResponse ==
    [][AnsweredEmpty =>
          /\ pc = "fetch"
          /\ pc' # "ratelimit" /\ delay' = 0 /\ delay = 0
          /\ Last(log').attempt = attempt /\ attempt' = 0
          /\ Len(log') <= max_retries
          /\ Len(results') = Len(results) + 1
          /\ Len(progress') = Len(progress) + 1
          /\ Last(progress').current = i
          /\ Last(results').kind # "dict"
          /\ ~IsSuccess(Last(results')) /\ ~IsFailure(Last(results'))
          /\ "url" \notin DOMAIN Last(results')]_vars

C26_Witness ==
    /\ Len(log) = 2 /\ log[1].kind = "error" /\ log[2].kind = "empty"
    /\ log[2].attempt < max_retries - 1
    /\ results # <<>> /\ Last(results) = NoneResult
    /\ Len(progress) = Len(results)
    /\ delay = 0

RaisingSuccess(r) == r.kind = "dict" /\ r.success /\ r.raw_data = "scalar"

C27_BufferedCount ==
    Len(processed_profiles) = Len(NormalizedSoFar(Len(results)))

C27_RaiseIsCaught ==
    (Len(results') = Len(results) + 1 /\ RaisingSuccess(Last(results'))) =>
        /\ processed_profiles' = processed_profiles
        /\ sink' = sink /\ flushes' = flushes /\ written' = written
        /\ pc' = IF i = Len(profile_urls) THEN "export" ELSE "fetch"
        /\ i' = IF i = Len(profile_urls) THEN i ELSE i + 1

\* C27: when extract_profile_fields raises inside the callback the exception
\* is caught there: the step buffers no record, writes nothing and leaves the
\* loop on its way to the next identifier; the buffer holds as many records
\* as there were successes whose normalization returned.
C27_NormalizeFaultCaught ==
    []C27_BufferedCount /\ [][C27_RaiseIsCaught]_vars

C27_Witness ==
    /\ Len(results) = 2
    /\ RaisingSuccess(results[1])
    /\ IsSuccess(results[2]) /\ results[2].raw_data = "mapping"
    /\ Len(processed_profiles) = 1
    /\ processed_profiles[1].linkedin_url = results[2].url
    /\ pc = "export"

BatchFlushes == {k \in DOMAIN flushes : flushes[k].kind = "batch"}

C28_FlushedOnAppend ==
    \A k \in BatchFlushes :
        LET r == results[flushes[k].at]
        IN  /\ r.kind = "dict" /\ r.success /\ r.raw_data = "mapping"
            /\ Len(NormalizedSoFar(flushes[k].at)) % batch_size = 0
            /\ \A j \in BatchFlushes :
                   j < k => Len(NormalizedSoFar(flushes[j].at))
                                < Len(NormalizedSoFar(flushes[k].at))

C28_FlushStep ==
    (flushes' # flushes /\ flushes' # <<>> /\ Last(flushes').kind = "batch") =>
        /\ Len(processed_profiles') = Len(processed_profiles) + 1
        /\ Len(processed_profiles') % batch_size = 0
        /\ Len(flushes') = Len(flushes) + 1

\* C28: the batch test is made only in a step that has just appended a
\* record: every intermediate flush happens in a step that grew the buffer
\* by one, at a result that is a success whose normalization returned; a
\* failure or a raising success delivered while the buffer length is a
\* positive multiple of batch_size flushes nothing, so no buffer length has
\* two intermediate flushes.
C28_FlushOnlyOnAppend ==
    []C28_FlushedOnAppend /\ [][C28_FlushStep]_vars

C28_Witness ==
    /\ batch_size = 1
    /\ Len(results) = 2
    /\ IsSuccess(results[1]) /\ results[1].raw_data = "mapping"
    /\ IsFailure(results[2]) \/ RaisingSuccess(results[2])
    /\ Len(processed_profiles) = 1
    /\ Len(flushes) = 1 /\ flushes[1].kind = "batch"
    /\ pc = "export"

\* C29: the linkedin_url of every record extract_profile_fields returns is
\* the url of the result it was given, whatever the payload holds, a url or
\* linkedin_url entry of its own included.
C29_UrlFromResult ==
    (Normalized /\ ~calcOut.raised) => calcOut.record.linkedin_url = calcIn.url

C29_Witness ==
    /\ Normalized /\ ~calcOut.raised
    /\ calcIn.family = "url" /\ calcIn.url = 2
    /\ calcIn.raw.t = "map" /\ "linkedin_url" \in DOMAIN calcIn.raw.v
    /\ calcIn.raw.v["linkedin_url"] = Str(<<"elsewhere">>)
    /\ calcOut.record.name = <<"ada">>
    /\ calcOut.record.linkedin_url = 2

\* C30: get_processed_urls does not fail: when the existing sink cannot be
\* read a resume run starts with an empty set of processed identifiers, so
\* it takes every discovered identifier as new, and a run that reaches the
\* end of the fetch loop has fetched all of them again; the run fails, if it
\* does, on a write and not on that read.
C30_UnreadableSink ==
    (run > 0 /\ resume /\ ~readOk) =>
        /\ already_processed = {}
        /\ profile_urls = discovery
        /\ pc \in {"export", "done", "failed"} => fetched = Range(discovery)
        /\ pc = "failed" => flushes # <<>> /\ ~Last(flushes).ok

C30_Witness ==
    /\ run = 2 /\ resume /\ ~readOk
    /\ startRows # <<>>
    /\ UrlsOf(startRows) \subseteq fetched
    /\ fetched = Range(discovery)
    /\ pc = "done"

====
